---- MODULE Spec2Model ----
(***************************************************************************)
(* A model of src/main.py: split_faults_by_country.  The run is a strict   *)
(* sequence: ensure the output directory, load the faults, load the        *)
(* countries, normalise the coordinate reference systems, validate the     *)
(* country name column, spatially join, then loop over the unique country  *)
(* names writing one GeoJSON file per name.                                *)
(*                                                                         *)
(* Text (country names, column names, file slugs) is a sequence of         *)
(* characters, so that strip / replace / re.sub / lower / startswith are   *)
(* computed character by character as Python computes them.  A character   *)
(* is a one-character string; a character that has no TLA+ escape is       *)
(* written as its code point, "U+000B".                                    *)
(***************************************************************************)
EXTENDS Integers, Sequences, FiniteSets, TLC

VARIABLES
    pc,            \* position in split_faults_by_country
    dirExists,     \* os.path.exists(output_dir)
    faults_gdf,    \* [columns, rows]: rows is the sequence of fault features [geometry, attrs]
    faults_crs,    \* faults_gdf.crs
    countries_gdf, \* [columns, rows]: rows is the sequence of country features [geometry, attrs]
    countries_crs, \* countries_gdf.crs
    joined_gdf,    \* rows of the spatial join
    unique_countries, \* joined_gdf[country_name_col].unique()
    idx,           \* position of the for loop in unique_countries (1-based)
    skipped,       \* names reported by "Skipping fault segments with invalid country name"
    writes,        \* log of the to_file calls: [name, path, rows, result]
    files,         \* the output folder: slug -> written rows
    fatal,         \* why the run stopped before the loop ("none" if it did not)
    outcome,       \* how control left the function: "running", "returned", "raised"
    s_in,          \* sanitiser harness: the input value (text or bytes)
    s_once,        \* sanitiser harness: the sanitised text
    s_twice,       \* sanitiser harness: the sanitised text, sanitised again
    spc            \* sanitiser harness: position

vars == <<pc, dirExists, faults_gdf, faults_crs, countries_gdf, countries_crs,
          joined_gdf, unique_countries, idx, skipped, writes, files,
          fatal, outcome, s_in, s_once, s_twice, spc>>

pipeVars == <<pc, dirExists, faults_gdf, faults_crs, countries_gdf, countries_crs,
              joined_gdf, unique_countries, idx, skipped, writes, files,
              fatal, outcome>>

slugVars == <<s_in, s_once, s_twice, spc>>

----------------------------------------------------------------------------
(* Bounds *)

MaxFaults == 2
MaxRegions == 2
MaxLen == 3

\* The plane is a row of cells; a geometry is the set of coordinates it covers.
Cells == {1, 2}

----------------------------------------------------------------------------
(* Text *)

UpperSeq == <<"A","B","C","D","E","F","G","H","I","J","K","L","M",
              "N","O","P","Q","R","S","T","U","V","W","X","Y","Z">>
LowerSeq == <<"a","b","c","d","e","f","g","h","i","j","k","l","m",
              "n","o","p","q","r","s","t","u","v","w","x","y","z">>
DigitSeq == <<"0","1","2","3","4","5","6","7","8","9">>

Range(f) == {f[k] : k \in DOMAIN f}

\* the characters str.strip() removes: those for which str.isspace() holds
Whitespace ==
    {" ", "\t", "\n", "\r", "\f", "U+000B", "U+001C", "U+001D", "U+001E", "U+001F",
     "U+0085", "U+00A0", "U+1680", "U+2000", "U+2001", "U+2002", "U+2003", "U+2004",
     "U+2005", "U+2006", "U+2007", "U+2008", "U+2009", "U+200A", "U+2028", "U+2029",
     "U+202F", "U+205F", "U+3000"}

\* the character class [a-zA-Z0-9_] of the regular expression
IsWordChar(c) == c \in Range(UpperSeq) \cup Range(LowerSeq) \cup Range(DigitSeq) \cup {"_"}

RECURSIVE lstrip(_, _)
lstrip(s, chars) ==
    IF s # <<>> /\ Head(s) \in chars THEN lstrip(Tail(s), chars) ELSE s

RECURSIVE rstrip(_, _)
rstrip(s, chars) ==
    IF s # <<>> /\ s[Len(s)] \in chars THEN rstrip(SubSeq(s, 1, Len(s) - 1), chars) ELSE s

\* str.strip(): chars removed from both ends
strip(s, chars) == rstrip(lstrip(s, chars), chars)

\* str.replace(old, ""), old a single character
replace_remove(s, old) == SelectSeq(s, LAMBDA c : c # old)

\* re.sub(r'[^a-zA-Z0-9_]+', '_', s): every maximal run of non-word characters
\* becomes one underscore
RECURSIVE re_sub(_)
re_sub(s) ==
    IF s = <<>> THEN <<>>
    ELSE IF IsWordChar(Head(s)) THEN <<Head(s)>> \o re_sub(Tail(s))
    ELSE <<"_">> \o re_sub(lstrip(Tail(s), {c \in Range(s) : ~IsWordChar(c)}))

toLowerChar(c) ==
    IF \E k \in DOMAIN UpperSeq : UpperSeq[k] = c
    THEN LowerSeq[CHOOSE k \in DOMAIN UpperSeq : UpperSeq[k] = c]
    ELSE c

\* str.lower()
lower(s) == [k \in 1..Len(s) |-> toLowerChar(s[k])]

\* str.startswith(prefix)
startswith(s, prefix) ==
    Len(s) >= Len(prefix) /\ SubSeq(s, 1, Len(prefix)) = prefix

----------------------------------------------------------------------------
(* Values of an attribute table: None, a number, text or bytes *)

None == [kind |-> "none", text |-> <<>>]
Str(t) == [kind |-> "str", text |-> t]
Num(t) == [kind |-> "int", text |-> t]
Bytes(t) == [kind |-> "bytes", text |-> t]

\* the 256 byte values as characters, byte n at position n + 1 (the grave
\* accent, which a TLA+ string cannot hold, by its code point)
ByteChars == <<
    "U+0000", "U+0001", "U+0002", "U+0003", "U+0004", "U+0005", "U+0006", "U+0007", "U+0008", "\t", "\n", "U+000B", "\f", "\r", "U+000E", "U+000F",
    "U+0010", "U+0011", "U+0012", "U+0013", "U+0014", "U+0015", "U+0016", "U+0017", "U+0018", "U+0019", "U+001A", "U+001B", "U+001C", "U+001D", "U+001E", "U+001F",
    " ", "!", "\"", "#", "$", "%", "&", "'", "(", ")", "*", "+", ",", "-", ".", "/",
    "0", "1", "2", "3", "4", "5", "6", "7", "8", "9", ":", ";", "<", "=", ">", "?",
    "@", "A", "B", "C", "D", "E", "F", "G", "H", "I", "J", "K", "L", "M", "N", "O",
    "P", "Q", "R", "S", "T", "U", "V", "W", "X", "Y", "Z", "[", "\\", "]", "^", "_",
    "U+0060", "a", "b", "c", "d", "e", "f", "g", "h", "i", "j", "k", "l", "m", "n", "o",
    "p", "q", "r", "s", "t", "u", "v", "w", "x", "y", "z", "{", "|", "}", "~", "U+007F",
    "U+0080", "U+0081", "U+0082", "U+0083", "U+0084", "U+0085", "U+0086", "U+0087", "U+0088", "U+0089", "U+008A", "U+008B", "U+008C", "U+008D", "U+008E", "U+008F",
    "U+0090", "U+0091", "U+0092", "U+0093", "U+0094", "U+0095", "U+0096", "U+0097", "U+0098", "U+0099", "U+009A", "U+009B", "U+009C", "U+009D", "U+009E", "U+009F",
    "U+00A0", "U+00A1", "U+00A2", "U+00A3", "U+00A4", "U+00A5", "U+00A6", "U+00A7", "U+00A8", "U+00A9", "U+00AA", "U+00AB", "U+00AC", "U+00AD", "U+00AE", "U+00AF",
    "U+00B0", "U+00B1", "U+00B2", "U+00B3", "U+00B4", "U+00B5", "U+00B6", "U+00B7", "U+00B8", "U+00B9", "U+00BA", "U+00BB", "U+00BC", "U+00BD", "U+00BE", "U+00BF",
    "U+00C0", "U+00C1", "U+00C2", "U+00C3", "U+00C4", "U+00C5", "U+00C6", "U+00C7", "U+00C8", "U+00C9", "U+00CA", "U+00CB", "U+00CC", "U+00CD", "U+00CE", "U+00CF",
    "U+00D0", "U+00D1", "U+00D2", "U+00D3", "U+00D4", "U+00D5", "U+00D6", "U+00D7", "U+00D8", "U+00D9", "U+00DA", "U+00DB", "U+00DC", "U+00DD", "U+00DE", "U+00DF",
    "U+00E0", "U+00E1", "U+00E2", "U+00E3", "U+00E4", "U+00E5", "U+00E6", "U+00E7", "U+00E8", "U+00E9", "U+00EA", "U+00EB", "U+00EC", "U+00ED", "U+00EE", "U+00EF",
    "U+00F0", "U+00F1", "U+00F2", "U+00F3", "U+00F4", "U+00F5", "U+00F6", "U+00F7", "U+00F8", "U+00F9", "U+00FA", "U+00FB", "U+00FC", "U+00FD", "U+00FE", "U+00FF" >>

HexDigits == <<"0","1","2","3","4","5","6","7","8","9","a","b","c","d","e","f">>

\* the value of a byte
ord(c) == (CHOOSE k \in DOMAIN ByteChars : ByteChars[k] = c) - 1

\* the two hexadecimal digits of a byte that repr writes as \xNN
hex_of_byte(c) == <<HexDigits[(ord(c) \div 16) + 1], HexDigits[(ord(c) % 16) + 1]>>

\* repr of one byte inside the quotes: quote and backslash escaped, \t \n \r
\* by letter, every other byte below 0x20 or from 0x7f on as \xNN
repr_byte(c, quote) ==
    CASE c = quote \/ c = "\\" -> <<"\\", c>>
      [] c = "\t" -> <<"\\", "t">>
      [] c = "\n" -> <<"\\", "n">>
      [] c = "\r" -> <<"\\", "r">>
      [] OTHER -> IF ord(c) < 32 \/ ord(c) >= 127
                  THEN <<"\\", "x">> \o hex_of_byte(c)
                  ELSE <<c>>

RECURSIVE repr_bytes_body(_, _)
repr_bytes_body(t, quote) ==
    IF t = <<>> THEN <<>>
    ELSE repr_byte(Head(t), quote) \o repr_bytes_body(Tail(t), quote)

\* str(b) of a bytes value is its repr: b'...', in double quotes when the
\* content holds an apostrophe and no double quote
bytes_repr(t) ==
    LET quote == IF "'" \in Range(t) /\ "\"" \notin Range(t) THEN "\"" ELSE "'"
    IN  <<"b", quote>> \o repr_bytes_body(t, quote) \o <<quote>>

\* str(value)
py_str(v) ==
    CASE v.kind = "none" -> <<"N","o","n","e">>
      [] v.kind = "bytes" -> bytes_repr(v.text)
      [] OTHER -> v.text

\* the negation of the test at line 130
is_str_or_bytes(v) == v.kind \in {"str", "bytes"}

unknown_country == <<"u","n","k","n","o","w","n","_","c","o","u","n","t","r","y">>

\* a slip: the underscores are stripped before the substitution creates them
safe_country_name_strip_first(country_name) ==
    LET s1 == strip(py_str(country_name), Whitespace)
        s2 == replace_remove(s1, "'")
        s3 == strip(s2, {"_"})
        s4 == re_sub(s3)
        s5 == lower(s4)
    IN  IF s5 = <<>> THEN unknown_country ELSE s5

\* a slip: no fallback for an empty result
safe_country_name_no_fallback(country_name) ==
    LET s1 == strip(py_str(country_name), Whitespace)
        s2 == replace_remove(s1, "'")
        s3 == re_sub(s2)
        s4 == lower(s3)
    IN  strip(s4, {"_"})

\* lines 145-156
safe_country_name(country_name) ==
    LET s1 == strip(py_str(country_name), Whitespace)
        s2 == replace_remove(s1, "'")
        s3 == re_sub(s2)
        s4 == lower(s3)
        s5 == strip(s4, {"_"})
    IN  IF s5 = <<>> THEN unknown_country ELSE s5

----------------------------------------------------------------------------
(* Column names *)

index_prefix == <<"i","n","d","e","x","_">>
index_right == <<"i","n","d","e","x","_","r","i","g","h","t">>
COUNTRY_NAME_COLUMN == <<"N","A","M","E","_","E","N">>
SOVEREIGNT == <<"S","O","V","E","R","E","I","G","N","T">>
slip_type == <<"s","l","i","p","_","t","y","p","e">>
index_id == <<"i","n","d","e","x","_","i","d">>

----------------------------------------------------------------------------
(* Coordinate reference systems and geometry *)

NoCrs == "None"
DefaultCrs == "EPSG:4326"
CrsIds == {"EPSG:4326", "EPSG:3857"}

\* the coordinate of a cell of the plane in a reference system
Coord(crs, cell) == IF crs = "EPSG:3857" THEN cell * 100 ELSE cell

\* a fault line runs over one or more cells; a country polygon covers one cell
\* (two countries may cover the same cell)
CellSets == (SUBSET Cells) \ {{}}
CountryCells == {{k} : k \in Cells}

GeometryIn(crs, cs) == {Coord(crs, k) : k \in cs}

\* GeoDataFrame.to_crs on one geometry: every coordinate re-expressed in the target system
to_crs(geometry, from, to) ==
    {Coord(to, CHOOSE k \in Cells : Coord(from, k) = x) : x \in geometry}

\* a slip: the exact test left out, every candidate pair accepted
intersects_always(a, b) == TRUE

\* predicate="intersects": the two geometries share at least one point
intersects(a, b) == a \cap b # {}

----------------------------------------------------------------------------
(* The inputs read_file can deliver *)

\* the values of the name column: missing, a number, empty text, two names that
\* sanitise to the same slug (a_b), and a name with a slug of its own (peru)
NameValues ==
    { None, Num(<<"7">>), Str(<<>>), Str(<<"A"," ","b">>), Str(<<"a","-","b">>),
      Str(<<"P","e","r","u">>) }

\* the value of column c of the k-th fault
FaultValue(k, c) == Str(<<"v", DigitSeq[k + 1]>> \o c)

FaultRow(k, cols, crs, cs) ==
    [geometry |-> GeometryIn(crs, cs), attrs |-> [c \in cols |-> FaultValue(k, c)]]

CountryRow(cols, crs, nm, cs) ==
    [geometry |-> GeometryIn(crs, cs), attrs |-> [c \in cols |-> nm]]

SeqsUpTo(S, n) == UNION {[1..m -> S] : m \in 0..n}

\* The fault files: up to MaxFaults features in a known reference, with or without
\* a column named index_*; and the files the run cannot get past (no reference, or
\* a column named like the country name column), with at most one feature.
FaultInputs ==
    [columns : {{slip_type}, {slip_type, index_id}}, crs : CrsIds,
     cells : SeqsUpTo(CellSets, MaxFaults)]
    \cup [columns : {{slip_type}}, crs : {NoCrs}, cells : SeqsUpTo(CellSets, 1)]
    \cup [columns : {{slip_type, COUNTRY_NAME_COLUMN}}, crs : CrsIds,
          cells : SeqsUpTo(CellSets, 1)]

\* The country files: up to MaxRegions features with the name column, in a known
\* reference or none; and the files without the name column, with at most one feature.
CountryInputs ==
    [columns : {{COUNTRY_NAME_COLUMN}}, crs : CrsIds \cup {NoCrs},
     rows : SeqsUpTo(NameValues \X CountryCells, MaxRegions)]
    \cup [columns : {{SOVEREIGNT}}, crs : CrsIds \cup {NoCrs},
          rows : SeqsUpTo(NameValues \X CountryCells, 1)]

----------------------------------------------------------------------------
(* The spatial join and the grouping *)

suffix_left == <<"_","l","e","f","t">>
suffix_right == <<"_","r","i","g","h","t">>

\* gpd.sjoin(faults, countries[[col, 'geometry']], how="inner", predicate="intersects"):
\* one row per (fault, country) pair whose geometries intersect, in fault order;
\* the row keeps the fault's index, geometry and columns and gains index_right
\* and the country's name column; a fault column of that same name becomes
\* <col>_left and the country's <col>_right (lsuffix, rsuffix)
sjoin(left, right, col) ==
    LET F == Len(left)
        R == Len(right)
        pairs == [p \in 1..(F * R) |-> <<((p - 1) \div R) + 1, ((p - 1) % R) + 1>>]
        hit == SelectSeq(pairs, LAMBDA q : intersects(left[q[1]].geometry, right[q[2]].geometry))
        row(q) ==
            LET f == left[q[1]]
                r == right[q[2]]
                lname(d) == IF d = col THEN d \o suffix_left ELSE d
                rname == IF col \in DOMAIN f.attrs THEN col \o suffix_right ELSE col
            IN  [index |-> q[1],
                 geometry |-> f.geometry,
                 attrs |-> [c \in {lname(d) : d \in DOMAIN f.attrs} \cup {index_right, rname} |->
                              IF c = rname THEN r.attrs[col]
                              ELSE IF c = index_right THEN Num(<<DigitSeq[q[2]]>>)
                              ELSE f.attrs[CHOOSE d \in DOMAIN f.attrs : lname(d) = c]]]
    IN  [p \in 1..Len(hit) |-> row(hit[p])]

\* a slip: every name of the column, repeated ones included
unique_keep_all(names) == names

\* Series.unique(): the distinct values in order of first appearance
RECURSIVE unique(_)
unique(names) ==
    IF names = <<>> THEN <<>>
    ELSE <<Head(names)>> \o unique(SelectSeq(Tail(names), LAMBDA n : n # Head(names)))

\* line 140
columns_to_drop(columns, country_name_col) ==
    {c \in columns : startswith(c, index_prefix) \/ c = country_name_col}

\* a slip: the rows are not filtered by the country's name
country_faults_unfiltered(joined, country_name, country_name_col) ==
    LET keep(r) == DOMAIN r.attrs \ columns_to_drop(DOMAIN r.attrs, country_name_col)
    IN  [k \in 1..Len(joined) |->
            [index |-> joined[k].index,
             geometry |-> joined[k].geometry,
             attrs |-> [c \in keep(joined[k]) |-> joined[k].attrs[c]]]]

\* lines 136-141: the rows of one country with the dropped columns removed
country_faults(joined, country_name, country_name_col) ==
    LET sel == SelectSeq(joined, LAMBDA r : r.attrs[country_name_col] = country_name)
        keep(r) == DOMAIN r.attrs \ columns_to_drop(DOMAIN r.attrs, country_name_col)
    IN  [k \in 1..Len(sel) |->
            [index |-> sel[k].index,
             geometry |-> sel[k].geometry,
             attrs |-> [c \in keep(sel[k]) |-> sel[k].attrs[c]]]]

NoFiles == [p \in {} |-> <<>>]

----------------------------------------------------------------------------
(* split_faults_by_country, step by step *)

SlugIdle == s_in = Str(<<>>) /\ s_once = <<>> /\ s_twice = <<>> /\ spc = "off"

Init ==
    /\ pc = "start"
    /\ dirExists \in BOOLEAN
    /\ faults_gdf = [columns |-> {}, rows |-> <<>>]
    /\ faults_crs = NoCrs
    /\ countries_gdf = [columns |-> {}, rows |-> <<>>]
    /\ countries_crs = NoCrs
    /\ joined_gdf = <<>>
    /\ unique_countries = <<>>
    /\ idx = 1
    /\ skipped = <<>>
    /\ writes = <<>>
    /\ files = NoFiles
    /\ fatal = "none"
    /\ outcome = "running"
    /\ SlugIdle

\* how the function ends before the loop: an early "return" or an exception
\* that nothing catches
Stop(why, how) ==
    /\ pc' = "done"
    /\ fatal' = why
    /\ outcome' = how

\* lines 47-48: the folder is missing and os.makedirs raises (empty path, a
\* component that is a file, no permission); nothing catches it.  The folder
\* may be there afterwards all the same (a path ending in "..": the
\* intermediate folders are made before the last component fails)
MakeOutputDirRaises ==
    /\ pc = "start"
    /\ ~dirExists
    /\ dirExists' \in BOOLEAN
    /\ Stop("makedirs", "raised")
    /\ UNCHANGED <<faults_gdf, faults_crs, countries_gdf, countries_crs,
                   joined_gdf, unique_countries, idx, skipped, writes, files>>
    /\ UNCHANGED slugVars

\* lines 47-49: the folder is there, or os.makedirs creates it
MakeOutputDir ==
    /\ pc = "start"
    /\ dirExists' = TRUE
    /\ pc' = "load_faults"
    /\ UNCHANGED <<faults_gdf, faults_crs, countries_gdf, countries_crs, joined_gdf,
                   unique_countries, idx, skipped, writes, files, fatal, outcome>>
    /\ UNCHANGED slugVars

\* lines 53-55: read_file delivers the fault features
LoadFaults ==
    /\ pc = "load_faults"
    /\ \E in \in FaultInputs :
          /\ faults_gdf' = [columns |-> in.columns,
                            rows |-> [k \in 1..Len(in.cells) |->
                                        FaultRow(k, in.columns, in.crs, in.cells[k])]]
          /\ faults_crs' = in.crs
    /\ pc' = "load_countries"
    /\ UNCHANGED <<dirExists, countries_gdf, countries_crs, joined_gdf,
                   unique_countries, idx, skipped, writes, files, fatal, outcome>>
    /\ UNCHANGED slugVars

\* lines 56-59: read_file raises, the handler prints and returns
LoadFaultsError ==
    /\ pc = "load_faults"
    /\ Stop("load_faults", "returned")
    /\ UNCHANGED <<dirExists, faults_gdf, faults_crs, countries_gdf, countries_crs,
                   joined_gdf, unique_countries, idx, skipped, writes, files>>
    /\ UNCHANGED slugVars

\* lines 64-71: read_file delivers the country features
LoadCountries ==
    /\ pc = "load_countries"
    /\ \E in \in CountryInputs :
          /\ countries_gdf' = [columns |-> in.columns,
                               rows |-> [k \in 1..Len(in.rows) |->
                                           CountryRow(in.columns, in.crs,
                                                      in.rows[k][1], in.rows[k][2])]]
          /\ countries_crs' = in.crs
    /\ pc' = "normalize"
    /\ UNCHANGED <<dirExists, faults_gdf, faults_crs, joined_gdf,
                   unique_countries, idx, skipped, writes, files, fatal, outcome>>
    /\ UNCHANGED slugVars

\* lines 72-76: read_file raises, the handler prints and returns
LoadCountriesError ==
    /\ pc = "load_countries"
    /\ Stop("load_countries", "returned")
    /\ UNCHANGED <<dirExists, faults_gdf, faults_crs, countries_gdf, countries_crs,
                   joined_gdf, unique_countries, idx, skipped, writes, files>>
    /\ UNCHANGED slugVars

\* line 80-82: a country set without a reference is taken to be EPSG:4326
crs_after_default(crs) == IF crs = NoCrs THEN DefaultCrs ELSE crs

\* lines 80-95 when the references already agree: nothing is transformed
NormalizeMatch ==
    /\ pc = "normalize"
    /\ faults_crs = crs_after_default(countries_crs)
    /\ countries_crs' = crs_after_default(countries_crs)
    /\ pc' = "validate"
    /\ UNCHANGED <<dirExists, faults_gdf, faults_crs, countries_gdf, joined_gdf,
                   unique_countries, idx, skipped, writes, files, fatal, outcome>>
    /\ UNCHANGED slugVars

\* lines 80-93 when they differ: the countries are reprojected into the faults' reference
NormalizeReproject ==
    /\ pc = "normalize"
    /\ faults_crs # crs_after_default(countries_crs)
    /\ faults_crs # NoCrs
    /\ countries_gdf' =
          [countries_gdf EXCEPT !.rows =
              [k \in 1..Len(countries_gdf.rows) |->
                  [countries_gdf.rows[k] EXCEPT !.geometry =
                      to_crs(@, crs_after_default(countries_crs), faults_crs)]]]
    /\ countries_crs' = faults_crs
    /\ pc' = "validate"
    /\ UNCHANGED <<dirExists, faults_gdf, faults_crs, joined_gdf,
                   unique_countries, idx, skipped, writes, files, fatal, outcome>>
    /\ UNCHANGED slugVars

\* lines 80-92 when the faults carry no reference: to_crs(None) raises ValueError,
\* which nothing catches; the default assigned at line 82 stays
NormalizeRaises ==
    /\ pc = "normalize"
    /\ faults_crs = NoCrs
    /\ countries_crs' = crs_after_default(countries_crs)
    /\ Stop("crs", "raised")
    /\ UNCHANGED <<dirExists, faults_gdf, faults_crs, countries_gdf, joined_gdf,
                   unique_countries, idx, skipped, writes, files>>
    /\ UNCHANGED slugVars

\* lines 99-103: the name column is missing, the function prints and returns
ValidateColumnMissing ==
    /\ pc = "validate"
    /\ COUNTRY_NAME_COLUMN \notin countries_gdf.columns
    /\ Stop("column", "returned")
    /\ UNCHANGED <<dirExists, faults_gdf, faults_crs, countries_gdf, countries_crs,
                   joined_gdf, unique_countries, idx, skipped, writes, files>>
    /\ UNCHANGED slugVars

\* line 99: the name column is there
ValidateColumn ==
    /\ pc = "validate"
    /\ COUNTRY_NAME_COLUMN \in countries_gdf.columns
    /\ pc' = "join"
    /\ UNCHANGED <<dirExists, faults_gdf, faults_crs, countries_gdf, countries_crs,
                   joined_gdf, unique_countries, idx, skipped, writes, files, fatal, outcome>>
    /\ UNCHANGED slugVars

\* lines 112-122
SpatialJoin ==
    /\ pc = "join"
    /\ COUNTRY_NAME_COLUMN \notin faults_gdf.columns
    /\ LET j == sjoin(faults_gdf.rows, countries_gdf.rows, COUNTRY_NAME_COLUMN)
       IN  /\ joined_gdf' = j
           /\ unique_countries' = unique([k \in 1..Len(j) |-> j[k].attrs[COUNTRY_NAME_COLUMN]])
    /\ idx' = 1
    /\ pc' = "loop"
    /\ UNCHANGED <<dirExists, faults_gdf, faults_crs, countries_gdf, countries_crs,
                   skipped, writes, files, fatal, outcome>>
    /\ UNCHANGED slugVars

\* lines 112-122 when the faults have a column of the same name: the join is
\* made, with both columns suffixed (NAME_EN_left, NAME_EN_right), and
\* joined_gdf[country_name_col] at line 122 raises KeyError
SpatialJoinKeyError ==
    /\ pc = "join"
    /\ COUNTRY_NAME_COLUMN \in faults_gdf.columns
    /\ joined_gdf' = sjoin(faults_gdf.rows, countries_gdf.rows, COUNTRY_NAME_COLUMN)
    /\ Stop("keyerror", "raised")
    /\ UNCHANGED <<dirExists, faults_gdf, faults_crs, countries_gdf, countries_crs,
                   unique_countries, idx, skipped, writes, files>>
    /\ UNCHANGED slugVars

InLoop == pc = "loop" /\ idx <= Len(unique_countries)

\* lines 130-132
SkipInvalidName ==
    /\ InLoop
    /\ ~is_str_or_bytes(unique_countries[idx])
    /\ skipped' = Append(skipped, unique_countries[idx])
    /\ idx' = idx + 1
    /\ UNCHANGED <<pc, dirExists, faults_gdf, faults_crs, countries_gdf, countries_crs,
                   joined_gdf, unique_countries, writes, files, fatal, outcome>>
    /\ UNCHANGED slugVars

\* the to_file call of one iteration, as the log keeps it
WriteCall(result) ==
    LET country_name == unique_countries[idx]
    IN  [name |-> country_name,
         path |-> safe_country_name(country_name),
         rows |-> country_faults(joined_gdf, country_name, COUNTRY_NAME_COLUMN),
         result |-> result]

\* lines 136-164: to_file succeeds, the file holds the group
WriteGroup ==
    /\ InLoop
    /\ is_str_or_bytes(unique_countries[idx])
    /\ LET w == WriteCall("ok")
       IN  /\ writes' = Append(writes, w)
           /\ files' = (w.path :> [complete |-> TRUE, rows |-> w.rows]) @@ files
    /\ idx' = idx + 1
    /\ UNCHANGED <<pc, dirExists, faults_gdf, faults_crs, countries_gdf, countries_crs,
                   joined_gdf, unique_countries, skipped, fatal, outcome>>
    /\ UNCHANGED slugVars

\* a slip: no handler around to_file, the exception leaves the function
WriteGroupErrorUncaught ==
    /\ InLoop
    /\ is_str_or_bytes(unique_countries[idx])
    /\ writes' = Append(writes, WriteCall("error"))
    /\ pc' = "done"
    /\ outcome' = "raised"
    /\ UNCHANGED <<dirExists, faults_gdf, faults_crs, countries_gdf, countries_crs,
                   joined_gdf, unique_countries, idx, skipped, files, fatal>>
    /\ UNCHANGED slugVars

\* lines 136-166: to_file raises before it touches the file; the handler prints
WriteGroupError ==
    /\ InLoop
    /\ is_str_or_bytes(unique_countries[idx])
    /\ writes' = Append(writes, WriteCall("error"))
    /\ idx' = idx + 1
    /\ UNCHANGED <<pc, dirExists, faults_gdf, faults_crs, countries_gdf, countries_crs,
                   joined_gdf, unique_countries, skipped, files, fatal, outcome>>
    /\ UNCHANGED slugVars

\* lines 136-166: to_file raises after it opened the file; the handler prints
WriteGroupErrorPartial ==
    /\ InLoop
    /\ is_str_or_bytes(unique_countries[idx])
    /\ LET w == WriteCall("error_partial")
       IN  /\ writes' = Append(writes, w)
           /\ files' = (w.path :> [complete |-> FALSE, rows |-> <<>>]) @@ files
    /\ idx' = idx + 1
    /\ UNCHANGED <<pc, dirExists, faults_gdf, faults_crs, countries_gdf, countries_crs,
                   joined_gdf, unique_countries, skipped, fatal, outcome>>
    /\ UNCHANGED slugVars

\* lines 168-169: the loop is over, the function returns
Complete ==
    /\ pc = "loop"
    /\ idx > Len(unique_countries)
    /\ pc' = "done"
    /\ outcome' = "returned"
    /\ UNCHANGED <<dirExists, faults_gdf, faults_crs, countries_gdf, countries_crs,
                   joined_gdf, unique_countries, idx, skipped, writes, files, fatal>>
    /\ UNCHANGED slugVars

Next ==
    \/ MakeOutputDir
    \/ MakeOutputDirRaises
    \/ LoadFaults
    \/ LoadFaultsError
    \/ LoadCountries
    \/ LoadCountriesError
    \/ NormalizeMatch
    \/ NormalizeReproject
    \/ NormalizeRaises
    \/ ValidateColumnMissing
    \/ ValidateColumn
    \/ SpatialJoin
    \/ SpatialJoinKeyError
    \/ SkipInvalidName
    \/ WriteGroup
    \/ WriteGroupError
    \/ WriteGroupErrorPartial
    \/ Complete

Spec == Init /\ [][Next]_vars

----------------------------------------------------------------------------
(* The sanitiser on its own: lines 145-156 applied to a text, then to the result *)

SlugAlphabet == {"A", "b", "1", "_", "'", "\"", " ", "\n", "U+000B", "U+00E9", "-"}

PipeIdle ==
    /\ pc = "off"
    /\ dirExists = FALSE
    /\ faults_gdf = [columns |-> {}, rows |-> <<>>]
    /\ faults_crs = NoCrs
    /\ countries_gdf = [columns |-> {}, rows |-> <<>>]
    /\ countries_crs = NoCrs
    /\ joined_gdf = <<>>
    /\ unique_countries = <<>>
    /\ idx = 1
    /\ skipped = <<>>
    /\ writes = <<>>
    /\ files = NoFiles
    /\ fatal = "none"
    /\ outcome = "running"

SlugInit ==
    /\ PipeIdle
    /\ \E t \in SeqsUpTo(SlugAlphabet, MaxLen) : s_in \in {Str(t), Bytes(t)}
    /\ s_once = <<>>
    /\ s_twice = <<>>
    /\ spc = "in"

SanitizeOnce ==
    /\ spc = "in"
    /\ s_once' = safe_country_name(s_in)
    /\ spc' = "once"
    /\ UNCHANGED <<s_in, s_twice>>
    /\ UNCHANGED pipeVars

SanitizeTwice ==
    /\ spc = "once"
    /\ s_twice' = safe_country_name(Str(s_once))
    /\ spc' = "twice"
    /\ UNCHANGED <<s_in, s_once>>
    /\ UNCHANGED pipeVars

SlugNext == SanitizeOnce \/ SanitizeTwice

SlugSpec == SlugInit /\ [][SlugNext]_vars

----------------------------------------------------------------------------
(* Vocabulary of the properties *)

Faults == DOMAIN faults_gdf.rows
Countries == DOMAIN countries_gdf.rows
NameOf(j) == countries_gdf.rows[j].attrs[COUNTRY_NAME_COLUMN]

\* the run went through the whole loop
Completed == pc = "done" /\ fatal = "none"

\* fault i and country j share a point
Share(i, j) == faults_gdf.rows[i].geometry \cap countries_gdf.rows[j].geometry # {}

\* how often fault i occurs in a sequence of rows
Occurrences(rows, i) == Cardinality({k \in DOMAIN rows : rows[k].index = i})

\* the spec's notion of a usable name: text, not empty
NonEmptyText(v) == v.kind = "str" /\ v.text # <<>>

\* no letter and no digit in the text
NoAlnum(s) ==
    \A k \in DOMAIN s : s[k] \notin Range(UpperSeq) \cup Range(LowerSeq) \cup Range(DigitSeq)

unknown_region == <<"u","n","k","n","o","w","n","_","r","e","g","i","o","n">>

----------------------------------------------------------------------------
(* C1 *)

\* C1 (coverage): after a run in which every write succeeded, every fault that
\* shares a point with a country of non-empty text name occurs exactly once in the
\* group written for that country, and the file at that country's path holds
\* that group.
C1_Coverage ==
    (Completed /\ \A w \in DOMAIN writes : writes[w].result = "ok") =>
        \A i \in Faults, j \in Countries :
            (NonEmptyText(NameOf(j)) /\ Share(i, j)) =>
                \E w \in DOMAIN writes :
                    /\ writes[w].name = NameOf(j)
                    /\ Occurrences(writes[w].rows, i) = 1
                    /\ writes[w].path \in DOMAIN files
                    /\ files[writes[w].path].rows = writes[w].rows

----------------------------------------------------------------------------
(* C2 *)

\* C2 (no phantom assignment): every fault row of every group handed to the
\* writer, and of every file, belongs to a fault that shares a point with a
\* country carrying the group's name; a fault that shares a point with no
\* country is in no group and in no file.
C2_NoPhantom ==
    /\ \A w \in DOMAIN writes : \A k \in DOMAIN writes[w].rows :
          \E j \in Countries :
              /\ NameOf(j) = writes[w].name
              /\ Share(writes[w].rows[k].index, j)
    /\ \A p \in DOMAIN files : \A k \in DOMAIN files[p].rows :
          \E j \in Countries, w \in DOMAIN writes :
              /\ writes[w].path = p
              /\ NameOf(j) = writes[w].name
              /\ Share(files[p].rows[k].index, j)
    /\ (pc \in {"loop", "done"} /\ fatal = "none") =>
          \A i \in Faults :
              (\A j \in Countries : ~Share(i, j)) =>
                  /\ \A w \in DOMAIN writes : Occurrences(writes[w].rows, i) = 0
                  /\ \A p \in DOMAIN files : Occurrences(files[p].rows, i) = 0

\* a finished run with two faults: one is in a written group that is on disk, the
\* other shares a point with no country and is in no group and in no file
C2_Witness ==
    /\ Completed
    /\ \E i1, i2 \in Faults :
          /\ i1 # i2
          /\ \A j \in Countries : ~Share(i2, j)
          /\ \E w \in DOMAIN writes :
                /\ writes[w].result = "ok"
                /\ NonEmptyText(writes[w].name)
                /\ Occurrences(writes[w].rows, i1) = 1
                /\ Occurrences(writes[w].rows, i2) = 0
                /\ files[writes[w].path].rows = writes[w].rows
          /\ \A w \in DOMAIN writes : Occurrences(writes[w].rows, i2) = 0

----------------------------------------------------------------------------
(* C3 *)

\* the countries fault i shares a point with
Touching(i) == {j \in Countries : Share(i, j)}

\* the text names (str or bytes, the empty text included) among those countries
TextNamesTouching(i) ==
    {NameOf(j) : j \in {t \in Touching(i) : NameOf(t).kind \in {"str", "bytes"}}}

\* the groups built for a country name (one per to_file call, successful or
\* not) that contain fault i
GroupsBuiltWith(i) == {w \in DOMAIN writes : Occurrences(writes[w].rows, i) >= 1}

\* the output files that hold fault i
FilesWith(i) ==
    {p \in DOMAIN files : files[p].complete /\ Occurrences(files[p].rows, i) >= 1}

\* every to_file call of the run succeeded
AllWritesOk == \A w \in DOMAIN writes : writes[w].result = "ok"

\* no two names of the run were written to the same path
NoSlugCollision ==
    \A w, x \in DOMAIN writes : writes[w].path = writes[x].path => w = x

\* C3 as stated (replication): after a run in which every write succeeded, a fault
\* that shares a point with k >= 2 countries is in exactly k output groups,
\* whether an output group is read as a group built for a name or as an output
\* file on disk.
C3_ReplicationAsStated ==
    (Completed /\ AllWritesOk) =>
        \A i \in Faults :
            Cardinality(Touching(i)) >= 2 =>
                \/ Cardinality(GroupsBuiltWith(i)) = Cardinality(Touching(i))
                \/ Cardinality(FilesWith(i)) = Cardinality(Touching(i))

\* C3 amended: after the run, a fault that shares a point with k >= 2 countries
\* is in exactly one built group per distinct text name among those countries
\* (k when the k names are text and pairwise distinct, fewer when names repeat
\* or are not text); it is in at most that many output files, and in exactly
\* that many when every write succeeded and no two names of the run were
\* written to the same path.
C3_Replication ==
    Completed =>
        \A i \in Faults :
            Cardinality(Touching(i)) >= 2 =>
                /\ Cardinality(GroupsBuiltWith(i)) = Cardinality(TextNamesTouching(i))
                /\ Cardinality(FilesWith(i)) <= Cardinality(TextNamesTouching(i))
                /\ (AllWritesOk /\ NoSlugCollision) =>
                      Cardinality(FilesWith(i)) = Cardinality(TextNamesTouching(i))

\* a finished run with a fault on two countries whose names have different slugs:
\* two groups, both written, the fault in two output files
C3_Witness ==
    /\ Completed
    /\ AllWritesOk
    /\ \E i \in Faults :
          /\ Cardinality(Touching(i)) = 2
          /\ \E j1, j2 \in Touching(i) :
                /\ NonEmptyText(NameOf(j1))
                /\ NonEmptyText(NameOf(j2))
                /\ safe_country_name(NameOf(j1)) # safe_country_name(NameOf(j2))
          /\ Cardinality(GroupsBuiltWith(i)) = 2
          /\ Cardinality(FilesWith(i)) = 2

----------------------------------------------------------------------------
(* C4 *)

\* C4 (reference consistency): once the normalisation has run, whatever the two
\* references were, both sets carry the same reference and the run goes on to
\* the join (it did not stop in the normalisation).
C4_ReferenceConsistency ==
    (/\ pc \in {"validate", "join", "loop", "done"}
     /\ fatal \notin {"makedirs", "load_faults", "load_countries"}) =>
        /\ faults_crs = countries_crs
        /\ fatal # "crs"

----------------------------------------------------------------------------
(* C5 *)

\* C5 (invalid identifiers): after the run, every name of the joined rows that is
\* empty text, missing or not text was reported as skipped, and no group was
\* handed to the writer for it.
C5_InvalidNamesDiscarded ==
    Completed =>
        \A k \in DOMAIN joined_gdf :
            LET v == joined_gdf[k].attrs[COUNTRY_NAME_COLUMN]
            IN  ~NonEmptyText(v) =>
                    /\ v \in Range(skipped)
                    /\ \A w \in DOMAIN writes : writes[w].name # v

----------------------------------------------------------------------------
(* C6 *)

\* C6 (slug idempotence): sanitising a sanitised text changes nothing.
C6_SlugIdempotent == spc = "twice" => s_twice = s_once

\* the fallback, sanitised again, is the fallback
C6_Witness ==
    /\ spc = "twice"
    /\ s_in.kind = "str"
    /\ s_in.text # <<>>
    /\ s_once = <<"u","n","k","n","o","w","n","_","c","o","u","n","t","r","y">>
    /\ s_twice = s_once

----------------------------------------------------------------------------
(* C7 *)

\* C7 as stated (slug fallback): a text without letter or digit sanitises to "unknown_region".
C7_FallbackAsStated ==
    (spc \in {"once", "twice"} /\ s_in.kind = "str" /\ NoAlnum(s_in.text)) =>
        s_once = unknown_region

\* C7 amended: a text without letter or digit (whitespace, punctuation, apostrophes,
\* underscores, or nothing at all) sanitises to "unknown_country".
C7_Fallback ==
    (spc \in {"once", "twice"} /\ s_in.kind = "str" /\ NoAlnum(s_in.text)) =>
        s_once = unknown_country

\* three blanks sanitise to the fallback
C7_Witness ==
    /\ spc = "once"
    /\ s_in = Str(<<" ", " ", " ">>)
    /\ s_once = unknown_country

----------------------------------------------------------------------------
(* C8 *)

\* C8 (fatal failures): a run stopped by a load failure, an unusable reference or
\* a missing name column has joined nothing, written nothing, and left the
\* function by an exception, not by a normal return.
C8_FatalAborts ==
    (pc = "done" /\ fatal \in {"load_faults", "load_countries", "crs", "column"}) =>
        /\ joined_gdf = <<>>
        /\ writes = <<>>
        /\ files = NoFiles
        /\ outcome = "raised"

----------------------------------------------------------------------------
(* C9 *)

\* every text name of the joined rows got exactly one to_file call, and the
\* function returned normally
EveryGroupAttemptedOnce ==
    /\ outcome = "returned"
    /\ \A k \in DOMAIN joined_gdf :
          LET v == joined_gdf[k].attrs[COUNTRY_NAME_COLUMN]
          IN  v.kind \in {"str", "bytes"} =>
                  Cardinality({w \in DOMAIN writes : writes[w].name = v}) = 1

\* the to_file calls made after call w
Later(w) == {x \in DOMAIN writes : x > w}

\* the output of call w is on disk as it was written
OnDisk(w) ==
    /\ writes[w].path \in DOMAIN files
    /\ files[writes[w].path] = [complete |-> TRUE, rows |-> writes[w].rows]

\* C9 as stated (write failures are per group): a run that reached the loop
\* returns normally with exactly one write attempted for every text name of
\* the joined rows, and a failed write leaves the output of every other
\* country as it was: a successfully written file is still on disk unless a
\* later write for its path succeeded.
C9_AsStated ==
    /\ Completed => EveryGroupAttemptedOnce
    /\ \A w \in DOMAIN writes :
          (/\ writes[w].result = "ok"
           /\ \A x \in Later(w) :
                 writes[x].path = writes[w].path => writes[x].result # "ok") =>
              OnDisk(w)

\* C9 amended: a run that reached the loop returns normally with exactly one
\* write attempted for every text name of the joined rows, failed writes or
\* not; a failed write leaves the output file at every other path as it was,
\* and can touch only the file at its own path, which it shares with the
\* countries whose names have the same slug: a successfully written file is
\* still on disk unless a later write to its path succeeded or failed after it
\* had opened the file.
C9_WriteFailuresPerRegion ==
    /\ Completed => EveryGroupAttemptedOnce
    /\ \A w \in DOMAIN writes :
          (/\ writes[w].result = "ok"
           /\ \A x \in Later(w) :
                 writes[x].path = writes[w].path => writes[x].result = "error") =>
              OnDisk(w)

\* a finished run over two countries with names of different slugs: the write
\* for the first failed, the write for the second is on disk with its faults
C9_Witness ==
    /\ Completed
    /\ \E w1, w2 \in DOMAIN writes :
          /\ w1 < w2
          /\ NonEmptyText(writes[w1].name)
          /\ NonEmptyText(writes[w2].name)
          /\ writes[w1].path # writes[w2].path
          /\ writes[w1].result # "ok"
          /\ writes[w1].rows # <<>>
          /\ writes[w2].result = "ok"
          /\ writes[w2].rows # <<>>
          /\ OnDisk(w2)

----------------------------------------------------------------------------
(* C10 *)

\* C10 (only join artifacts are removed): every row handed to the writer carries
\* exactly the attributes its fault had in the input.
C10_OnlyArtifactsRemoved ==
    \A w \in DOMAIN writes : \A k \in DOMAIN writes[w].rows :
        writes[w].rows[k].attrs = faults_gdf.rows[writes[w].rows[k].index].attrs

====
